---------------------------- MODULE Spec2Model ----------------------------
(***************************************************************************)
(* github-tree: a CLI that resolves its settings from flags and the file   *)
(* github-tree-inputs.txt, then walks the GitHub contents endpoint and      *)
(* prints a tree.  Model of src/github-tree.go.                             *)
(*                                                                         *)
(* A Go string is modelled as the sequence of its code points, so that     *)
(* concatenation is \o and the box-drawing glyphs keep their values:       *)
(*   9500 = U+251C  9492 = U+2514  9472 = U+2500  9474 = U+2502  32 = ' '  *)
(***************************************************************************)
EXTENDS Integers, Sequences, FiniteSets, TLC

VARIABLES
    fs,            \* github-tree-inputs.txt: [exists, data]
    ownerFlag,     \* -O / --owner
    repoFlag,      \* -R / --repo
    pathFlag,      \* -P / --path
    maxDepthFlag,  \* -M / --maxDepth
    env,           \* GITHUB_ACCESS_TOKEN
    repoTree,      \* what the contents endpoint serves: the root listing, nested
    pc,            \* "start", "run", "done", "panic"
    panicMsg,      \* which panic ended the process ("" while it runs)
    args,          \* the arguments every fetchFilesAndFolders call passes on unchanged
    stack,         \* the call stack of fetchFilesAndFolders, innermost frame last
    inflight,      \* the requests sent whose response has not been read
    lastResp,      \* how the latest GET ended: "none", "array", "transport", "json"
    out,           \* standard output, one element per line
    log            \* history: every GET sent and every line printed, in order

vars == <<fs, ownerFlag, repoFlag, pathFlag, maxDepthFlag, env, repoTree,
          pc, panicMsg, args, stack, inflight, lastResp, out, log>>

\* What a running process leaves alone: the flags as parsed, the environment, the
\* settings file and the served tree.
world == <<fs, ownerFlag, repoFlag, pathFlag, maxDepthFlag, env, repoTree>>

(***************************************************************************)
(* Bounds of the model.                                                    *)
(***************************************************************************)
MaxEntries == 4      \* entries of the served tree, all listings together
MaxDepthFlag == 3    \* largest value of -M tried
NegDepths == 1       \* how far below zero the values of -M go

(***************************************************************************)
(* Strings.                                                                *)
(***************************************************************************)
EmptyStr == <<>>
Slash == <<47>>
Str_o == <<111>>
Str_p == <<112>>
Str_r == <<114>>
Str_t == <<116>>
Str_A == <<65>>

\* The name the served tree gives the idx-th entry of a listing at a level:
\* A, B, ... at level 1, C, D, ... at level 2, and so on.
NameOf(level, idx) == <<64 + idx + 2 * (level - 1)>>

(***************************************************************************)
(* The settings file: encoding/json on the anonymous inputs struct.        *)
(***************************************************************************)
NoFile == [exists |-> FALSE, data |-> <<>>]

\* json.MarshalIndent: an object with the struct's four tagged fields, in order.
MarshalIndent(s) ==
    << <<"owner", s.Owner>>, <<"repo", s.Repo>>,
       <<"path", s.Path>>, <<"maxDepth", s.MaxDepth>> >>

\* json.Unmarshal of one field: the value of the last member with that key,
\* the zero value when the object has none.
UnmarshalField(data, key, zero) ==
    LET hits == {k \in DOMAIN data : data[k][1] = key}
    IN IF hits = {} THEN zero
       ELSE data[CHOOSE k \in hits : \A j \in hits : j <= k][2]

readInputsFromFile(data) ==
    [Owner    |-> UnmarshalField(data, "owner", EmptyStr),
     Repo     |-> UnmarshalField(data, "repo", EmptyStr),
     Path     |-> UnmarshalField(data, "path", EmptyStr),
     MaxDepth |-> UnmarshalField(data, "maxDepth", 0)]

updateInputsInFile(owner, repo, path, maxDepth) ==
    [exists |-> TRUE,
     data |-> MarshalIndent([Owner |-> owner, Repo |-> repo,
                             Path |-> path, MaxDepth |-> maxDepth])]

(***************************************************************************)
(* The renderer.                                                           *)
(***************************************************************************)
\* getFilePrefix with its two results exchanged.
getFilePrefixMut(isLast) ==
    IF isLast THEN <<9500, 9472, 9472, 32>> ELSE <<9492, 9472, 9472, 32>>

getFilePrefix(isLast) ==
    IF isLast THEN <<9492, 9472, 9472, 32>> ELSE <<9500, 9472, 9472, 32>>

getDirPrefix(isLast) ==
    IF isLast THEN <<9492, 9472, 9472, 32>> ELSE <<9500, 9472, 9472, 32>>

getIndentPrefix(isLast) ==
    IF isLast THEN <<32, 32, 32, 32>> ELSE <<9474, 32, 32, 32>>

(***************************************************************************)
(* The contents endpoint, as the program sees it: a path names a directory *)
(* of the served tree (a JSON array comes back) or it does not (a JSON     *)
(* object comes back: a file's own description, or a 404 message).         *)
(***************************************************************************)
RECURSIVE SplitPath(_, _)
\* The components of a path, empty ones dropped; cur is the component being read.
SplitPath(path, cur) ==
    IF path = <<>> THEN (IF cur = <<>> THEN <<>> ELSE <<cur>>)
    ELSE IF Head(path) = 47
         THEN (IF cur = <<>> THEN <<>> ELSE <<cur>>) \o SplitPath(Tail(path), <<>>)
         ELSE SplitPath(Tail(path), Append(cur, Head(path)))

RECURSIVE Lookup(_, _)
Lookup(listing, comps) ==
    IF comps = <<>> THEN [isArray |-> TRUE, listing |-> listing]
    ELSE LET hits == {k \in DOMAIN listing :
                        listing[k].Name = Head(comps) /\ listing[k].Type = "dir"}
         IN IF hits = {} THEN [isArray |-> FALSE, listing |-> <<>>]
            ELSE Lookup(listing[CHOOSE k \in hits : TRUE].Kids, Tail(comps))

Contents(path) == Lookup(repoTree, SplitPath(path, <<>>))

\* json.Unmarshal into []File: name and type of each element, nothing else.
DecodeFiles(listing) ==
    [k \in DOMAIN listing |-> [Name |-> listing[k].Name, Type |-> listing[k].Type]]

(***************************************************************************)
(* The served trees tried: every tree of at most MaxEntries entries whose  *)
(* entries are files, directories or symlinks.                             *)
(***************************************************************************)
RECURSIVE ForestsExact(_, _, _)
RECURSIVE EntriesExact(_, _, _)
EntriesExact(k, level, idx) ==
    (IF k = 1
     THEN {[Name |-> NameOf(level, idx), Type |-> t, Kids |-> <<>>] :
              t \in {"file", "symlink"}}
     ELSE {})
    \cup {[Name |-> NameOf(level, idx), Type |-> "dir", Kids |-> f] :
              f \in ForestsExact(k - 1, level + 1, 1)}

ForestsExact(n, level, idx) ==
    IF n = 0 THEN {<<>>}
    ELSE UNION {{<<e>> \o rest : e \in EntriesExact(k, level, idx),
                                 rest \in ForestsExact(n - k, level, idx + 1)} :
                k \in 1..n}

Trees == UNION {ForestsExact(n, 1, 1) : n \in 0..MaxEntries}

\* root = [{A,dir},{B,file}], A = [{C,file}]
ExampleTree ==
    << [Name |-> NameOf(1, 1), Type |-> "dir",
        Kids |-> << [Name |-> NameOf(2, 1), Type |-> "file", Kids |-> <<>>] >>],
       [Name |-> NameOf(1, 2), Type |-> "file", Kids |-> <<>>] >>

\* root = [{A,symlink},{B,dir}], B = [{C,file}]
LinkTree ==
    << [Name |-> NameOf(1, 1), Type |-> "symlink", Kids |-> <<>>],
       [Name |-> NameOf(1, 2), Type |-> "dir",
        Kids |-> << [Name |-> NameOf(2, 1), Type |-> "file", Kids |-> <<>>] >>] >>

DepthFlags == (0 - NegDepths)..MaxDepthFlag

(***************************************************************************)
(* main                                                                    *)
(***************************************************************************)
Frame(path, indent, level) ==
    [path |-> path, indent |-> indent, level |-> level,
     files |-> <<>>, i |-> 0, st |-> "enter"]

Panic(msg) ==
    /\ pc' = "panic"
    /\ panicMsg' = msg

\* Lines 80-87 and 121-128: the token is read, then the walk is started at level 1.
StartFetch(owner, repo, path, maxDepth) ==
    IF env = EmptyStr
    THEN /\ Panic("GitHub access token not found in environment")
         /\ UNCHANGED <<args, stack>>
    ELSE /\ pc' = "run"
         /\ panicMsg' = panicMsg
         /\ args' = [accessToken |-> env, owner |-> owner, repo |-> repo,
                     maxDepth |-> maxDepth]
         /\ stack' = <<Frame(path, EmptyStr, 1)>>

\* The check of line 55 with && in the place of ||.
FieldsEmptyMut(owner, repo) == owner = EmptyStr /\ repo = EmptyStr

\* Line 55: the check on the owner and repo read from the file.
FieldsEmpty(owner, repo) == owner = EmptyStr \/ repo = EmptyStr

\* The overlay of lines 65-73 without its test for an empty flag.
OverlayMut(flag, current) == flag

\* Lines 65-73: a flag that was given replaces the stored value.
Overlay(flag, current) == IF flag # EmptyStr THEN flag ELSE current

\* Lines 60-62 and 74: the stored maxDepth is raised to 1 when below it, and then
\* overwritten by the flag.
MaxDepthExisting(storedMaxDepth, flag) ==
    LET currentMaxDepth == IF storedMaxDepth < 1 THEN 1 ELSE storedMaxDepth
    IN flag

\* Lines 92-94: only the value 0 of the flag is replaced by 1.
MaxDepthMissing(flag) == IF flag = 0 THEN 1 ELSE flag

\* Lines 50-87: the settings file exists.
MainExisting ==
    LET cur == readInputsFromFile(fs.data)
    IN IF FieldsEmpty(cur.Owner, cur.Repo)
       THEN /\ Panic("The 'owner' and 'repo' fields in github-tree-inputs.txt cannot be empty")
            /\ UNCHANGED <<fs, maxDepthFlag, args, stack>>
       ELSE LET currentOwner == Overlay(ownerFlag, cur.Owner)
                currentRepo  == Overlay(repoFlag, cur.Repo)
                currentPath  == Overlay(pathFlag, cur.Path)
                currentMaxDepth == MaxDepthExisting(cur.MaxDepth, maxDepthFlag)
            IN /\ fs' = updateInputsInFile(currentOwner, currentRepo, currentPath,
                                           currentMaxDepth)
               /\ UNCHANGED maxDepthFlag
               /\ StartFetch(currentOwner, currentRepo, currentPath, currentMaxDepth)

\* Lines 88-129: the settings file does not exist.
MainMissing ==
    LET md == MaxDepthMissing(maxDepthFlag)
    IN /\ maxDepthFlag' = md
       /\ fs' = [exists |-> TRUE,
                 data |-> MarshalIndent([Owner |-> ownerFlag, Repo |-> repoFlag,
                                         Path |-> pathFlag, MaxDepth |-> md])]
       /\ StartFetch(ownerFlag, repoFlag, pathFlag, md)

Main ==
    /\ pc = "start"
    /\ IF fs.exists THEN MainExisting ELSE MainMissing
    /\ UNCHANGED <<ownerFlag, repoFlag, pathFlag, env, repoTree, inflight, lastResp,
                   out, log>>


(***************************************************************************)
(* fetchFilesAndFolders, one step at a time.  top is the running call.     *)
(***************************************************************************)
top == stack[Len(stack)]

SetTop(f) == [stack EXCEPT ![Len(stack)] = f]

\* The guard of line 165 with >= in the place of >.
DepthExceededMut(level, maxDepth) == level >= maxDepth

\* Line 165: the depth guard.
DepthExceeded(level, maxDepth) == level > maxDepth

\* Line 199 without its -1.
IsLastMut(i, n) == i = n + 1

\* Line 199.
IsLast(i, n) == i = n

\* Lines 201-202 and 204-205: Printf of indent and prefix, Println of the name.
Line(indent, prefix, name) == indent \o prefix \o name

\* Line 207: the path and the indent of the recursive call.
ChildPath(path, name) == path \o Slash \o name

\* The indent of line 207 with its two operands exchanged.
ChildIndentMut(indent, isLast) == getIndentPrefix(isLast) \o indent

ChildIndent(indent, isLast) == indent \o getIndentPrefix(isLast)

GetEvent(path) ==
    [kind |-> "GET", owner |-> args.owner, repo |-> args.repo, path |-> path,
     idx |-> 0, text |-> EmptyStr]

LineEvent(path, idx, text) ==
    [kind |-> "line", owner |-> args.owner, repo |-> args.repo, path |-> path,
     idx |-> idx, text |-> text]

\* A call returns: its frame is popped and the caller's loop moves to its next
\* element; the return of the first call ends main.
Return ==
    LET rest == SubSeq(stack, 1, Len(stack) - 1)
    IN IF rest = <<>>
       THEN /\ stack' = <<>>
            /\ pc' = "done"
       ELSE /\ stack' = [rest EXCEPT ![Len(rest)].i = @ + 1]
            /\ pc' = pc

\* Lines 165-167.
FetchDepthStop ==
    /\ pc = "run"
    /\ top.st = "enter"
    /\ DepthExceeded(top.level, args.maxDepth)
    /\ Return
    /\ UNCHANGED <<world, panicMsg, args, inflight, lastResp, out, log>>

\* Lines 169-178: the request is built and sent.
FetchGet ==
    /\ pc = "run"
    /\ top.st = "enter"
    /\ ~DepthExceeded(top.level, args.maxDepth)
    /\ stack' = SetTop([top EXCEPT !.st = "wait"])
    /\ inflight' = inflight \cup {GetEvent(top.path)}
    /\ log' = Append(log, GetEvent(top.path))
    /\ UNCHANGED <<world, pc, panicMsg, args, lastResp, out>>

\* Lines 178-196: the response is read and is a JSON array.
ResponseArray ==
    /\ pc = "run"
    /\ top.st = "wait"
    /\ Contents(top.path).isArray
    /\ stack' = SetTop([top EXCEPT !.st = "loop", !.i = 1,
                                   !.files = DecodeFiles(Contents(top.path).listing)])
    /\ inflight' = inflight \ {GetEvent(top.path)}
    /\ lastResp' = "array"
    /\ UNCHANGED <<world, pc, panicMsg, args, out, log>>

\* The transport error of lines 179-181 ignored: the walk goes on as if the
\* listing were empty.
ResponseTransportErrorMut ==
    /\ pc = "run"
    /\ top.st = "wait"
    /\ stack' = SetTop([top EXCEPT !.st = "loop", !.i = 1])
    /\ inflight' = inflight \ {GetEvent(top.path)}
    /\ lastResp' = "transport"
    /\ UNCHANGED <<world, pc, panicMsg, args, out, log>>

\* Lines 179-181 and 186-188: client.Do or io.ReadAll fails.
ResponseTransportError ==
    /\ pc = "run"
    /\ top.st = "wait"
    /\ Panic("transport")
    /\ inflight' = inflight \ {GetEvent(top.path)}
    /\ lastResp' = "transport"
    /\ UNCHANGED <<world, args, stack, out, log>>

\* Lines 192-195: the body is not a JSON array (the path is no directory of the
\* tree, or the API answers with an error object).
ResponseNotArray ==
    /\ pc = "run"
    /\ top.st = "wait"
    /\ Panic("json")
    /\ inflight' = inflight \ {GetEvent(top.path)}
    /\ lastResp' = "json"
    /\ UNCHANGED <<world, args, stack, out, log>>

\* Lines 200-202.
LoopFile ==
    /\ pc = "run"
    /\ top.st = "loop"
    /\ top.i <= Len(top.files)
    /\ top.files[top.i].Type = "file"
    /\ LET f == top.files[top.i]
           isLast == IsLast(top.i, Len(top.files))
           text == Line(top.indent, getFilePrefix(isLast), f.Name)
       IN /\ out' = Append(out, text)
          /\ log' = Append(log, LineEvent(top.path, top.i, text))
          /\ stack' = SetTop([top EXCEPT !.i = @ + 1])
    /\ UNCHANGED <<world, pc, panicMsg, args, inflight, lastResp>>

\* Lines 203-207 with the recursive call started as a goroutine: the request for
\* the subdirectory is sent and the loop goes on to the next element.
LoopDirMut ==
    /\ pc = "run"
    /\ top.st = "loop"
    /\ top.i <= Len(top.files)
    /\ top.files[top.i].Type = "dir"
    /\ LET f == top.files[top.i]
           isLast == IsLast(top.i, Len(top.files))
           text == Line(top.indent, getDirPrefix(isLast), f.Name)
           child == ChildPath(top.path, f.Name)
       IN /\ out' = Append(out, text)
          /\ log' = log \o <<LineEvent(top.path, top.i, text)>>
                        \o (IF DepthExceeded(top.level + 1, args.maxDepth)
                            THEN <<>> ELSE <<GetEvent(child)>>)
          /\ inflight' = IF DepthExceeded(top.level + 1, args.maxDepth)
                         THEN inflight ELSE inflight \cup {GetEvent(child)}
          /\ stack' = SetTop([top EXCEPT !.i = @ + 1])
    /\ UNCHANGED <<world, pc, panicMsg, args, lastResp>>

\* Lines 203-207: the line, then the recursive call.
LoopDir ==
    /\ pc = "run"
    /\ top.st = "loop"
    /\ top.i <= Len(top.files)
    /\ top.files[top.i].Type = "dir"
    /\ LET f == top.files[top.i]
           isLast == IsLast(top.i, Len(top.files))
           text == Line(top.indent, getDirPrefix(isLast), f.Name)
       IN /\ out' = Append(out, text)
          /\ log' = Append(log, LineEvent(top.path, top.i, text))
          /\ stack' = Append(stack, Frame(ChildPath(top.path, f.Name),
                                          ChildIndent(top.indent, isLast),
                                          top.level + 1))
    /\ UNCHANGED <<world, pc, panicMsg, args, inflight, lastResp>>

\* Lines 200-208: neither branch of the if applies.
LoopOther ==
    /\ pc = "run"
    /\ top.st = "loop"
    /\ top.i <= Len(top.files)
    /\ top.files[top.i].Type \notin {"file", "dir"}
    /\ stack' = SetTop([top EXCEPT !.i = @ + 1])
    /\ UNCHANGED <<world, pc, panicMsg, args, inflight, lastResp, out, log>>

\* Lines 198 and 210: the range is exhausted and the call returns.
LoopEnd ==
    /\ pc = "run"
    /\ top.st = "loop"
    /\ top.i > Len(top.files)
    /\ Return
    /\ UNCHANGED <<world, panicMsg, args, inflight, lastResp, out, log>>

(***************************************************************************)
(* The process has ended; the tool is run again, with new flags and        *)
(* environment, in the same working directory.                             *)
(***************************************************************************)
OwnerFlags == {EmptyStr, Str_o, Str_p}
RepoFlags == {EmptyStr, Str_r}
PathFlags == {EmptyStr, Str_A}
Tokens == {EmptyStr, Str_t}

NoArgs == [accessToken |-> EmptyStr, owner |-> EmptyStr, repo |-> EmptyStr,
           maxDepth |-> 0]

NewRun ==
    /\ pc \in {"done", "panic"}
    /\ ownerFlag' \in OwnerFlags
    /\ repoFlag' \in RepoFlags
    /\ pathFlag' \in PathFlags
    /\ maxDepthFlag' \in DepthFlags
    /\ env' \in Tokens
    /\ pc' = "start"
    /\ panicMsg' = ""
    /\ args' = NoArgs
    /\ stack' = <<>>
    /\ inflight' = {}
    /\ lastResp' = "none"
    /\ out' = <<>>
    /\ log' = <<>>
    /\ UNCHANGED <<fs, repoTree>>

ProcessStart ==
    /\ pc = "start"
    /\ panicMsg = ""
    /\ args = NoArgs
    /\ stack = <<>>
    /\ inflight = {}
    /\ lastResp = "none"
    /\ out = <<>>
    /\ log = <<>>

\* Any flags and token, the settings file not yet there, one of two served trees.
Init ==
    /\ fs = NoFile
    /\ ownerFlag \in OwnerFlags
    /\ repoFlag \in RepoFlags
    /\ pathFlag \in PathFlags
    /\ maxDepthFlag \in DepthFlags
    /\ env \in Tokens
    /\ repoTree \in {ExampleTree, LinkTree}
    /\ ProcessStart

Walk ==
    \/ FetchDepthStop
    \/ FetchGet
    \/ ResponseArray
    \/ ResponseTransportError
    \/ ResponseNotArray
    \/ LoopFile
    \/ LoopDir
    \/ LoopOther
    \/ LoopEnd

Next == Main \/ Walk \/ NewRun

Spec == Init /\ [][Next]_vars

\* One run with a token, an owner and a repo, over every served tree.
InitWalk ==
    /\ fs = NoFile
    /\ ownerFlag = Str_o
    /\ repoFlag = Str_r
    /\ pathFlag \in PathFlags
    /\ maxDepthFlag \in DepthFlags
    /\ env = Str_t
    /\ repoTree \in Trees
    /\ ProcessStart

NextWalk == Main \/ Walk

SpecWalk == InitWalk /\ [][NextWalk]_vars


(***************************************************************************)
(* What the properties read.                                               *)
(***************************************************************************)
EmptyFieldsMsg == "The 'owner' and 'repo' fields in github-tree-inputs.txt cannot be empty"

\* The settings the file holds.
Stored == readInputsFromFile(fs.data)

Gets == SelectSeq(log, LAMBDA e : e.kind = "GET")

Lines == SelectSeq(log, LAMBDA e : e.kind = "line")

IsPrefix(s, t) == Len(s) <= Len(t) /\ SubSeq(t, 1, Len(s)) = s

\* The path the walk was started at: the resolved path, which main has written
\* to the settings file.
RootPath == Stored.Path

RootListing == Contents(RootPath).listing

\* The level of the listing a path names: 1 for the requested path.
LevelOfPath(path) ==
    Len(SplitPath(path, <<>>)) - Len(SplitPath(RootPath, <<>>)) + 1

\* The directories from the requested path (excluded) down to path (included).
Below(path) ==
    LET all == SplitPath(path, <<>>)
    IN SubSeq(all, Len(SplitPath(RootPath, <<>>)) + 1, Len(all))

\* Section 4.3 of the specification.
BranchGlyph(isLast) ==
    IF isLast THEN <<9492, 9472, 9472, 32>> ELSE <<9500, 9472, 9472, 32>>

Continuation(isLast) ==
    IF isLast THEN <<32, 32, 32, 32>> ELSE <<9474, 32, 32, 32>>

IndexOfDir(listing, name) ==
    CHOOSE k \in DOMAIN listing : listing[k].Name = name /\ listing[k].Type = "dir"

RECURSIVE AncestorIndent(_, _)
\* The continuation glyphs of the directories comps, outermost first, each by its
\* place in its own listing.
AncestorIndent(listing, comps) ==
    IF comps = <<>> THEN <<>>
    ELSE LET k == IndexOfDir(listing, Head(comps))
         IN Continuation(k = Len(listing))
              \o AncestorIndent(listing[k].Kids, Tail(comps))

RECURSIVE ExpectedFrom(_, _, _, _, _)
\* The lines of a walk without failure, from element k of a listing on: each file
\* or dir element's line, a dir's line followed by the lines of its own listing
\* when that listing's level is within maxDepth.
ExpectedFrom(listing, k, indent, level, maxDepth) ==
    IF k > Len(listing) THEN <<>>
    ELSE LET e == listing[k]
             isLast == k = Len(listing)
             own == IF e.Type \in {"file", "dir"}
                    THEN << indent \o BranchGlyph(isLast) \o e.Name >>
                    ELSE <<>>
             kids == IF e.Type = "dir" /\ level + 1 <= maxDepth
                     THEN ExpectedFrom(e.Kids, 1, indent \o Continuation(isLast),
                                       level + 1, maxDepth)
                     ELSE <<>>
         IN own \o kids \o ExpectedFrom(listing, k + 1, indent, level, maxDepth)

ExpectedOut ==
    IF args.maxDepth >= 1 /\ Contents(RootPath).isArray
    THEN ExpectedFrom(RootListing, 1, <<>>, 1, args.maxDepth)
    ELSE <<>>

RECURSIVE DirsWithin(_, _, _)
\* The dir entries found in the listings at levels level..maxDepth-1.
DirsWithin(listing, level, maxDepth) ==
    IF level > maxDepth - 1 THEN 0
    ELSE LET dirs == {k \in DOMAIN listing : listing[k].Type = "dir"}
             RECURSIVE Sum(_)
             Sum(S) == IF S = {} THEN 0
                       ELSE LET k == CHOOSE x \in S : TRUE
                            IN 1 + DirsWithin(listing[k].Kids, level + 1, maxDepth)
                                 + Sum(S \ {k})
         IN Sum(dirs)

Started == pc \in {"run", "done", "panic"} /\ args # NoArgs

(***************************************************************************)
(* C1: the maxDepth written to the settings file and passed to the fetcher *)
(* is at least 1, whatever the flag and the stored value are.              *)
(***************************************************************************)
C1_MaxDepthAtLeastOne ==
    /\ fs.exists => Stored.MaxDepth >= 1
    /\ Started => args.maxDepth >= 1

(***************************************************************************)
(* C2: no GET is ever sent with an empty owner or an empty repo.           *)
(***************************************************************************)
C2_NoGetWithEmptyOwnerOrRepo ==
    \A k \in DOMAIN log :
        log[k].kind = "GET" => log[k].owner # EmptyStr /\ log[k].repo # EmptyStr

(***************************************************************************)
(* C3, as stated: with the settings file present, the run fails with the   *)
(* empty owner/repo error exactly when the owner or repo is empty after    *)
(* the flags were overlaid on the stored values.                           *)
(***************************************************************************)
C3_CheckAfterMerge ==
    [][(pc = "start" /\ fs.exists) =>
         LET mergedOwner == IF ownerFlag # EmptyStr THEN ownerFlag ELSE Stored.Owner
             mergedRepo  == IF repoFlag # EmptyStr THEN repoFlag ELSE Stored.Repo
         IN (panicMsg' = EmptyFieldsMsg)
              <=> (mergedOwner = EmptyStr \/ mergedRepo = EmptyStr)]_vars

(***************************************************************************)
(* C3, amended: with the settings file present, the run fails with the     *)
(* empty owner/repo error exactly when the STORED owner or repo is empty,  *)
(* flags or not, and then leaves the file alone and sends nothing;         *)
(* otherwise the flags are overlaid on owner, repo and path, the merged    *)
(* settings are written and, with a token, the fetch starts with them.     *)
(***************************************************************************)
C3_CheckBeforeMerge ==
    [][(pc = "start" /\ fs.exists) =>
         LET mergedOwner == IF ownerFlag # EmptyStr THEN ownerFlag ELSE Stored.Owner
             mergedRepo  == IF repoFlag # EmptyStr THEN repoFlag ELSE Stored.Repo
             mergedPath  == IF pathFlag # EmptyStr THEN pathFlag ELSE Stored.Path
             after       == readInputsFromFile(fs'.data)
         IN IF Stored.Owner = EmptyStr \/ Stored.Repo = EmptyStr
            THEN /\ pc' = "panic"
                 /\ panicMsg' = EmptyFieldsMsg
                 /\ fs' = fs
                 /\ stack' = <<>>
                 /\ log' = <<>>
            ELSE /\ panicMsg' # EmptyFieldsMsg
                 /\ after.Owner = mergedOwner
                 /\ after.Repo = mergedRepo
                 /\ after.Path = mergedPath
                 /\ mergedOwner # EmptyStr
                 /\ mergedRepo # EmptyStr
                 /\ env # EmptyStr =>
                      /\ pc' = "run"
                      /\ args'.owner = mergedOwner
                      /\ args'.repo = mergedRepo
                      /\ stack' = <<Frame(mergedPath, EmptyStr, 1)>>]_vars

\* A stored empty owner met a non-empty -O flag, and the run failed.
C3_Witness ==
    /\ pc = "panic"
    /\ panicMsg = EmptyFieldsMsg
    /\ Stored.Owner = EmptyStr
    /\ Stored.Repo # EmptyStr
    /\ ownerFlag # EmptyStr

(***************************************************************************)
(* C4: a run with empty owner, repo and path flags over a settings file    *)
(* whose owner and repo are non-empty keeps owner, repo and path, in the   *)
(* file and in what the fetcher gets, and sets maxDepth to the flag.       *)
(***************************************************************************)
C4_SecondRunPreserves ==
    [][(/\ pc = "start"
        /\ fs.exists
        /\ Stored.Owner # EmptyStr
        /\ Stored.Repo # EmptyStr
        /\ ownerFlag = EmptyStr
        /\ repoFlag = EmptyStr
        /\ pathFlag = EmptyStr) =>
         LET after == readInputsFromFile(fs'.data)
         IN /\ fs'.exists
            /\ after.Owner = Stored.Owner
            /\ after.Repo = Stored.Repo
            /\ after.Path = Stored.Path
            /\ after.MaxDepth = maxDepthFlag
            /\ env # EmptyStr =>
                 /\ pc' = "run"
                 /\ args'.owner = Stored.Owner
                 /\ args'.repo = Stored.Repo
                 /\ args'.maxDepth = maxDepthFlag
                 /\ stack' = <<Frame(Stored.Path, EmptyStr, 1)>>]_vars

\* A run without owner, repo and path flags is walking what an earlier run
\* stored, at a depth other than 1.
C4_Witness ==
    /\ pc = "run"
    /\ ownerFlag = EmptyStr
    /\ repoFlag = EmptyStr
    /\ pathFlag = EmptyStr
    /\ args.owner = Str_p
    /\ Stored.Path = Str_A
    /\ args.maxDepth = 2
    /\ Len(log) > 0


(***************************************************************************)
(* What the properties of the walk read.                                   *)
(***************************************************************************)
\* The element of the served tree a printed line is about.
EntryOf(e) == Contents(e.path).listing[e.idx]

\* The four code points a printed line carries between its indent and its name.
GlyphOf(e) ==
    LET n == Len(e.text) - Len(EntryOf(e).Name)
    IN SubSeq(e.text, n - 3, n)

\* An event belongs to the listing at path p or to a listing below it.
Under(e, p) == e.path = p \/ IsPrefix(p \o Slash, e.path)

FetchedPaths == {log[k].path : k \in {j \in DOMAIN log : log[j].kind = "GET"}}

Failed == lastResp \in {"transport", "json"}

(***************************************************************************)
(* C5: with maxDepth >= 1, every GET and every printed entry is at a level *)
(* <= maxDepth, a run without failure sends 1 + (dir entries found at      *)
(* levels 1..maxDepth-1) GETs, and a call entered with level > maxDepth    *)
(* returns without a GET and without output.                               *)
(***************************************************************************)
C5_DepthBound ==
    /\ [](Started /\ args.maxDepth >= 1 =>
            /\ \A k \in DOMAIN log : LevelOfPath(log[k].path) <= args.maxDepth
            /\ pc = "done" =>
                 Len(Gets) = 1 + DirsWithin(RootListing, 1, args.maxDepth))
    /\ [][(/\ pc = "run"
           /\ args.maxDepth >= 1
           /\ top.st = "enter"
           /\ top.level > args.maxDepth) =>
            /\ log' = log
            /\ out' = out
            /\ inflight' = inflight
            /\ Len(stack') = Len(stack) - 1]_vars

\* A finished run printed a directory at level maxDepth that has entries of its
\* own, after walking more than one listing.
C5_Witness ==
    /\ pc = "done"
    /\ args.maxDepth >= 2
    /\ Len(Gets) >= 2
    /\ \E k \in DOMAIN log :
          /\ log[k].kind = "line"
          /\ LevelOfPath(log[k].path) = args.maxDepth
          /\ EntryOf(log[k]).Type = "dir"
          /\ Contents(log[k].path).listing[log[k].idx].Kids # <<>>

(***************************************************************************)
(* C6: with maxDepth = 1, an empty root path and a root listing of file    *)
(* and dir entries, one GET is sent and the output is one line per entry,  *)
(* in order, without indent, the last with the last-glyph and the others   *)
(* with the branch glyph; for [{A,dir},{B,file}] it is the two lines       *)
(* branch-A and last-B.                                                    *)
(***************************************************************************)
C6_DepthOne ==
    (/\ Started
     /\ args.maxDepth = 1
     /\ RootPath = EmptyStr
     /\ \A k \in DOMAIN repoTree : repoTree[k].Type \in {"file", "dir"}) =>
       /\ Len(Gets) <= 1
       /\ pc = "done" =>
            /\ Len(Gets) = 1
            /\ Len(out) = Len(repoTree)
            /\ \A k \in DOMAIN repoTree :
                  out[k] = (IF k = Len(repoTree)
                            THEN <<9492, 9472, 9472, 32>>
                            ELSE <<9500, 9472, 9472, 32>>) \o repoTree[k].Name
            /\ (/\ Len(repoTree) = 2
                /\ repoTree[1].Type = "dir"
                /\ repoTree[2].Type = "file") =>
                 out = << <<9500, 9472, 9472, 32, 65>>,
                          <<9492, 9472, 9472, 32, 66>> >>

\* The run over [{A,dir},{B,file}] with A = [{C,file}] at depth 1 has finished.
C6_Witness ==
    /\ pc = "done"
    /\ args.maxDepth = 1
    /\ RootPath = EmptyStr
    /\ repoTree = ExampleTree
    /\ Len(out) = 2

(***************************************************************************)
(* C7: every printed line is indent + branch glyph + name, the indent      *)
(* being the continuation glyphs of the entry's ancestor directories below *)
(* the requested path, outermost first, each by that ancestor's own        *)
(* last-status; root [{A,dir},{B,file}], A = [{C,file}], maxDepth 2 gives  *)
(* three lines, the one for C indented by A's continuation glyph.          *)
(***************************************************************************)
C7_LineShape ==
    Started =>
      /\ Len(out) = Len(Lines)
      /\ \A k \in DOMAIN out : out[k] = Lines[k].text
      /\ \A k \in DOMAIN log :
            log[k].kind = "line" =>
              LET e == log[k]
                  indent == AncestorIndent(RootListing, Below(e.path))
              IN /\ Len(indent) = 4 * (LevelOfPath(e.path) - 1)
                 /\ e.text = indent
                               \o BranchGlyph(e.idx = Len(Contents(e.path).listing))
                               \o EntryOf(e).Name
      /\ (/\ pc = "done"
          /\ repoTree = ExampleTree
          /\ RootPath = EmptyStr
          /\ args.maxDepth = 2) =>
           out = << <<9500, 9472, 9472, 32, 65>>,
                    <<9474, 32, 32, 32, 9492, 9472, 9472, 32, 67>>,
                    <<9492, 9472, 9472, 32, 66>> >>

\* A finished run printed a line at level 3 whose two ancestors differ in
\* last-status.
C7_Witness ==
    /\ pc = "done"
    /\ \E k \in DOMAIN log :
          /\ log[k].kind = "line"
          /\ LevelOfPath(log[k].path) = 3
          /\ LET indent == AncestorIndent(RootListing, Below(log[k].path))
             IN SubSeq(indent, 1, 4) # SubSeq(indent, 5, 8)

(***************************************************************************)
(* C8: the walk is depth-first and pre-order, siblings in API order: the   *)
(* GET for a directory's listing comes right after that directory's line,  *)
(* everything of a directory's subtree comes between its line and the line *)
(* of its next sibling, the lines of one listing are in listing order, and *)
(* never are two GETs outstanding.                                         *)
(***************************************************************************)
C8_PreOrder ==
    Started =>
      /\ Cardinality(inflight) <= 1
      /\ \A k \in DOMAIN log :
            log[k].kind = "GET" =>
              IF k = 1 THEN log[k].path = RootPath
              ELSE /\ log[k - 1].kind = "line"
                   /\ EntryOf(log[k - 1]).Type = "dir"
                   /\ log[k].path = log[k - 1].path \o Slash \o EntryOf(log[k - 1]).Name
      /\ \A p \in FetchedPaths :
            \A a, c \in DOMAIN log :
               (Under(log[a], p) /\ Under(log[c], p) /\ a <= c) =>
                  /\ \A b \in a..c : Under(log[b], p)
                  /\ \E g \in 1..a : log[g].kind = "GET" /\ log[g].path = p
      /\ \A a, b \in DOMAIN log :
            (/\ a < b
             /\ log[a].kind = "line"
             /\ log[b].kind = "line"
             /\ log[a].path = log[b].path) => log[a].idx < log[b].idx
      /\ IsPrefix(out, ExpectedOut)
      /\ pc = "done" => out = ExpectedOut

\* A finished run printed a directory, then an entry of that directory, then the
\* directory's next sibling.
C8_Witness ==
    /\ pc = "done"
    /\ \E a, b, c \in DOMAIN log :
          /\ a < b
          /\ b < c
          /\ log[a].kind = "line"
          /\ log[b].kind = "line"
          /\ log[c].kind = "line"
          /\ log[b].path = log[a].path \o Slash \o EntryOf(log[a]).Name
          /\ log[c].path = log[a].path
          /\ log[c].idx = log[a].idx + 1

(***************************************************************************)
(* C9: a GET that fails (transport error, or a body that is no JSON array) *)
(* ends the process there: the failing step prints nothing and sends       *)
(* nothing, nothing is sent or printed afterwards, and the output is a     *)
(* prefix of the output of the same walk without failure.                  *)
(***************************************************************************)
C9_AbortOnFailure ==
    /\ [](Failed =>
            /\ pc = "panic"
            /\ panicMsg \in {"transport", "json"}
            /\ IsPrefix(out, ExpectedOut)
            /\ ~ENABLED Walk)
    /\ [][(Failed' /\ ~Failed) => (out' = out /\ log' = log)]_vars

\* A GET failed after two lines were printed, with lines still to come.
C9_Witness ==
    /\ pc = "panic"
    /\ lastResp = "transport"
    /\ Len(out) >= 2
    /\ Len(Gets) >= 2
    /\ Len(ExpectedOut) > Len(out)

(***************************************************************************)
(* C10: an entry that is neither file nor dir gives no line and no GET but *)
(* keeps its place in the listing: a line carries the last-glyph exactly   *)
(* when its entry is the final element of the listing, so a listing has at *)
(* most one such line, and a listing walked to its end (its call has       *)
(* returned) has one exactly when its final element is a file or a dir.    *)
(***************************************************************************)
C10_OtherTypes ==
    Started =>
      \A p \in FetchedPaths :
         LET listing == Contents(p).listing
             mine == {k \in DOMAIN log : log[k].kind = "line" /\ log[k].path = p}
             last == {k \in mine : GlyphOf(log[k]) = <<9492, 9472, 9472, 32>>}
             printable == {k \in DOMAIN listing : listing[k].Type \in {"file", "dir"}}
         IN /\ \A k \in mine : log[k].idx \in printable
            /\ \A k \in mine \ last : GlyphOf(log[k]) = <<9500, 9472, 9472, 32>>
            /\ \A k \in mine : (k \in last) <=> (log[k].idx = Len(listing))
            /\ Cardinality(last) <= 1
            /\ \A k \in DOMAIN listing :
                  listing[k].Type # "dir" =>
                     (p \o Slash \o listing[k].Name) \notin FetchedPaths
            /\ (\A j \in DOMAIN stack : stack[j].path # p) =>
                 /\ Cardinality(mine) = Cardinality(printable)
                 /\ (Cardinality(last) = 1)
                      <=> (listing # <<>> /\ Len(listing) \in printable)

\* A finished run walked a listing that ends in a symlink and printed the file
\* before it.
C10_Witness ==
    /\ pc = "done"
    /\ RootPath = EmptyStr
    /\ Len(repoTree) >= 2
    /\ repoTree[Len(repoTree)].Type = "symlink"
    /\ repoTree[Len(repoTree) - 1].Type = "file"
    /\ Len(out) >= 1

============================================================================
